---- MODULE Spec2Model ----
(***************************************************************************)
(* EarlyAllocator (modules/bump_allocator/src/lib.rs): a double-ended bump *)
(* allocator over five AtomicUsize fields.  Bytes are handed out upward    *)
(* from b_pos, pages downward from p_pos.  Every atomic access of alloc,   *)
(* dealloc and alloc_pages is one step of the calling process, so that any *)
(* interleaving of concurrent callers is a behaviour of the model.         *)
(*                                                                         *)
(* Beside it, two components that share no state with the allocator:       *)
(* collections::HashMap (ulib/axstd/src/collections/hash.rs), chained      *)
(* buckets that double when the map is loaded, and DirWrapper::rename      *)
(* (exercises/ramfs_rename/src/ramfs.rs), a rename by copy then delete     *)
(* over the ramfs root directory.                                          *)
(***************************************************************************)
EXTENDS Integers, Naturals, FiniteSets, Sequences, Bags, TLC

(* ---------------------------------------------------------------------- *)
(* Bounds of the model                                                     *)
(* ---------------------------------------------------------------------- *)
\* width of usize in the model (the targets have 64)
WordBits == 6
\* width of the u32 that `align_pow2 as u32` truncates to (narrower than usize)
CastBits == 3
\* number of execution contexts sharing the allocator
NumProcs == 2
\* largest byte size an alloc call asks for
MaxSize == 1

\* width of the u64 state of SimpleHasher in the model (the code has 64)
HashBits == 8

\* PAGE, the const generic parameter (PageAllocator::PAGE_SIZE)
PAGE_SIZE == 2

Word == 2 ^ WordBits
MaxWord == Word - 1
Procs == 1 .. NumProcs
None == -1

(* ---------------------------------------------------------------------- *)
(* Inputs the callers draw from                                            *)
(* ---------------------------------------------------------------------- *)
\* init(start, size) before concurrent use: a region of two pages
InitArgs == { <<PAGE_SIZE, 2 * PAGE_SIZE>> }
\* Layout.size() and Layout.align() of a concurrent alloc call
Sizes == 0 .. MaxSize
Aligns == {1, 3}
\* num_pages and align_pow2 of a concurrent alloc_pages call
NumPages == {0, 1}
AlignPow2s == {0}

\* init(start, size) of the single caller: a region at address 0, one in
\* the middle of the address space with unaligned ends, one that ends at
\* the top of the address space, an empty one and an overflowing one
SeqInitArgs ==
    { <<0, 2 * PAGE_SIZE>>,
      <<2 * PAGE_SIZE + 1, 2 * PAGE_SIZE + 2>>,
      <<MaxWord - 2 * PAGE_SIZE - 1, 2 * PAGE_SIZE + 1>>,
      <<2 * PAGE_SIZE, 0>>,
      <<MaxWord - 1, 2>> }
SeqSizes == 0 .. (MaxSize + 2)
SeqAligns == {0, 1, 2, 3, PAGE_SIZE, Word \div 2}
SeqNumPages == {0, 1, 2, Word \div 2}
SeqAlignPow2s == {0, 3, WordBits, 2 ^ CastBits}

(* ---------------------------------------------------------------------- *)
(* usize arithmetic                                                        *)
(* ---------------------------------------------------------------------- *)
RECURSIVE BitAndN(_, _, _)
BitAndN(a, b, n) ==
    IF n = 0 THEN 0
    ELSE (IF a % 2 = 1 /\ b % 2 = 1 THEN 1 ELSE 0)
         + 2 * BitAndN(a \div 2, b \div 2, n - 1)

\* a & b on usize
BitAnd(a, b) == BitAndN(a, b, WordBits)
\* !a on usize
BitNot(a) == MaxWord - a
\* two's complement wrap-around of a usize result
Wrap(x) == x % Word

checked_add(a, b) == IF a + b > MaxWord THEN None ELSE a + b
checked_sub(a, b) == IF a < b THEN None ELSE a - b
checked_mul(a, b) == IF a * b > MaxWord THEN None ELSE a * b
saturating_sub(a, b) == IF a < b THEN 0 ELSE a - b
\* 1usize.checked_shl(align_pow2 as u32): the cast truncates, the shift is
\* refused when it is at least the width of usize
checked_shl(k) ==
    LET rhs == k % (2 ^ CastBits)
    IN  IF rhs >= WordBits THEN None ELSE 2 ^ rhs

\* a test for zero in place of the test for a power of two
is_power_of_two_nonzero(x) == x # 0

is_power_of_two(x) == \E k \in 0 .. (WordBits - 1) : x = 2 ^ k

\* `addr + align` overflows usize: a panic in a build with overflow checks
align_up_overflows(addr, align) == addr + align > MaxWord
\* (addr + align - 1) & !(align - 1), wrapping as a build without checks does
align_up(addr, align) ==
    BitAnd(Wrap(addr + align - 1), BitNot(Wrap(align - 1)))
\* addr & !(align - 1)
align_down(addr, align) == BitAnd(addr, BitNot(Wrap(align - 1)))

Max(a, b) == IF a >= b THEN a ELSE b

(* ---------------------------------------------------------------------- *)
(* State                                                                   *)
(* ---------------------------------------------------------------------- *)
VARIABLES
    start, end, b_pos, p_pos, count,  \* the five AtomicUsize fields
    pc,          \* where each process is inside its call
    loc,         \* the local variables of the call in progress
    ret,         \* the call the last step returned from and its result
    byte_grants, \* the bag of addresses in ranges successful allocs returned
    page_grants, \* the same for the successful alloc_pages
    panicked,    \* a panic has stopped the kernel
    map,         \* a collections::HashMap: its buckets and its count
    last,        \* the value most recently inserted into map under each key
    got,         \* the key and the result of the get that has just returned
    dir,         \* the children of the ramfs root directory
    fs_ret       \* the rename that has just returned and its result

fields == <<start, end, b_pos, p_pos, count>>
grants == <<byte_grants, page_grants>>
\* the state of the components that live beside the allocator
library == <<map, last, got, dir, fs_ret>>
vars == <<start, end, b_pos, p_pos, count, pc, loc, ret, byte_grants,
          page_grants, panicked, map, last, got, dir, fs_ret>>

NoGrants == EmptyBag
\* one more call was handed [a, a + size)
Grant(g, a, size) == g (+) SetToBag(a .. (a + size - 1))

NoRet == <<"none", "none">>
\* the locals of a call that are live between its steps
NoLoc == [size |-> 0, align |-> 0, arg |-> 0, cur_b |-> 0, cur_p |-> 0,
          aligned |-> 0, next |-> 0, lim |-> 0]

(* ---------------------------------------------------------------------- *)
(* collections::HashMap: the values                                        *)
(* ---------------------------------------------------------------------- *)
\* a key is the bytes its Hash implementation writes to the hasher
Keys == { <<1>>, <<2>>, <<1, 2>>, <<9, 7>> }
Values == {1, 2}
Capacities == {0, 1, 2}

\* SimpleHasher::write from SimpleHasher::new (state 0; random is never read)
RECURSIVE write(_, _)
write(state, bytes) ==
    IF bytes = << >> THEN state
    ELSE write((state * 31 + Head(bytes)) % (2 ^ HashBits), Tail(bytes))

\* key.hash(&mut hasher); hasher.finish()
finish(key) == write(0, key)

\* the Vec of `n` empty buckets the constructors build, with count 0
EmptyMap(n) == [buckets |-> [i \in 1 .. n |-> << >>], count |-> 0]

HashMap_new == EmptyMap(16)

\* the entries of the buckets, bucket after bucket
RECURSIVE Flatten(_)
Flatten(bs) == IF bs = << >> THEN << >> ELSE Head(bs) \o Flatten(Tail(bs))

\* the loop of resize: every entry is pushed to the bucket of its hash
RECURSIVE rehash(_, _)
rehash(entries, bs) ==
    IF entries = << >> THEN bs
    ELSE LET index == (finish(Head(entries)[1]) % Len(bs)) + 1
         IN  rehash(Tail(entries),
                    [bs EXCEPT ![index] = Append(bs[index], Head(entries))])

resize(m) ==
    LET new_size == Len(m.buckets) * 2
    IN  [m EXCEPT !.buckets =
                     rehash(Flatten(m.buckets), EmptyMap(new_size).buckets)]

\* no key has been inserted
NoEntries == [k \in Keys |-> None]
NoGot == << >>

(* ---------------------------------------------------------------------- *)
(* The ramfs root directory: the values                                    *)
(* ---------------------------------------------------------------------- *)
Names == {"a", "b", "c"}
Contents == { << >>, <<1>>, <<1, 2>> }

Absent == [type |-> "none", content |-> << >>]
\* a node as DirNode::create_node makes it: an empty file or directory
NewNode(ty) == [type |-> ty, content |-> << >>]

\* RamFileSystem::new(): a root directory without children
RamFileSystem_new == [n \in Names |-> Absent]
NoRename == << >>

\* DirNode::lookup of a name in the directory d
DirNode_lookup(d, path) == IF d[path] = Absent THEN "NotFound" ELSE "Ok"

\* DirNode::create: the result, and the directory after an Ok
DirNode_create(d, path) == IF d[path] # Absent THEN "AlreadyExists" ELSE "Ok"
DirNode_created(d, path, ty) == [d EXCEPT ![path] = NewNode(ty)]

\* DirNode::remove of a file or an empty directory
DirNode_remove(d, path) == IF d[path] = Absent THEN "NotFound" ELSE "Ok"
DirNode_removed(d, path) == [d EXCEPT ![path] = Absent]

\* FileNode::read_at(0, buf) over the whole node; a directory cannot be read
read_at(node) == IF node.type = "file" THEN "Ok" ELSE "IsADirectory"

\* FileNode::write_at(0, buf) on the file at path
write_at(d, path, buf) == [d EXCEPT ![path].content = buf]

\* EarlyAllocator::new()
Init ==
    /\ start = 0
    /\ end = 0
    /\ b_pos = 0
    /\ p_pos = 0
    /\ count = 0
    /\ pc = [p \in Procs |-> "idle"]
    /\ loc = [p \in Procs |-> NoLoc]
    /\ ret = NoRet
    /\ byte_grants = NoGrants
    /\ page_grants = NoGrants
    /\ panicked = FALSE
    /\ map = HashMap_new
    /\ last = NoEntries
    /\ got = NoGot
    /\ dir = RamFileSystem_new
    /\ fs_ret = NoRename

\* `||` written for `&&`
is_initialized_either == start # 0 \/ end # 0

is_initialized == start # 0 /\ end # 0

\* the call op of p returns r: "Ok", "InvalidParam", "NoMemory" or "Unit"
Return(p, op, r) ==
    /\ pc' = [pc EXCEPT ![p] = "idle"]
    /\ loc' = [loc EXCEPT ![p] = NoLoc]
    /\ ret' = <<op, r>>

Panic ==
    /\ panicked' = TRUE
    /\ UNCHANGED <<pc, loc, ret>>

Quiescent == ~panicked /\ \A p \in Procs : pc[p] = "idle"

(* ---------------------------------------------------------------------- *)
(* BaseAllocator                                                           *)
(* ---------------------------------------------------------------------- *)
\* init takes &mut self and runs before any concurrent use; the addresses
\* handed out before it belong to the region it replaces
init(s, z) ==
    /\ Quiescent
    /\ IF checked_add(s, z) = None \/ ~(s < s + z)
       THEN Panic /\ UNCHANGED <<fields, grants>>
       ELSE /\ start' = s
            /\ end' = s + z
            /\ b_pos' = s
            /\ p_pos' = s + z
            /\ count' = 0
            /\ pc' = pc
            /\ loc' = loc
            /\ ret' = NoRet
            /\ byte_grants' = NoGrants
            /\ page_grants' = NoGrants
            /\ panicked' = panicked
    /\ UNCHANGED library

add_memory(p) ==
    /\ ~panicked
    /\ pc[p] = "idle"
    /\ Return(p, "add_memory", "InvalidParam")
    /\ UNCHANGED <<fields, grants, panicked>>
    /\ UNCHANGED library

(* ---------------------------------------------------------------------- *)
(* ByteAllocator                                                           *)
(* ---------------------------------------------------------------------- *)
\* a plain store in place of the compare-and-swap
compare_exchange_blind(actual, current) == TRUE

\* self.b_pos.compare_exchange(current, new, ..): does the exchange happen
compare_exchange(actual, current) == actual = current

\* alloc, up to the first load of b_pos
alloc_call(p, size, align) ==
    /\ ~panicked
    /\ pc[p] = "idle"
    /\ IF ~is_initialized \/ size = 0 \/ ~is_power_of_two(align)
       THEN Return(p, "alloc", "InvalidParam")
       ELSE /\ pc' = [pc EXCEPT ![p] = "a_load_p"]
            /\ loc' = [loc EXCEPT ![p] =
                         [NoLoc EXCEPT !.size = size, !.align = align,
                                       !.cur_b = b_pos]]
            /\ ret' = NoRet
    /\ UNCHANGED <<fields, grants, panicked>>
    /\ UNCHANGED library

\* the match arm with `<` written for `<=`
alloc_load_p_strict(p) ==
    /\ ~panicked
    /\ pc[p] = "a_load_p"
    /\ LET aligned_b_pos == align_up(loc[p].cur_b, loc[p].align)
           new_b_pos == checked_add(aligned_b_pos, loc[p].size)
           current_p_pos == p_pos
       IN  \E overflow_checks \in BOOLEAN :
             IF overflow_checks
                /\ align_up_overflows(loc[p].cur_b, loc[p].align)
             THEN Panic
             ELSE IF new_b_pos # None /\ new_b_pos < current_p_pos
             THEN /\ pc' = [pc EXCEPT ![p] = "a_cas"]
                  /\ loc' = [loc EXCEPT ![p].aligned = aligned_b_pos,
                                        ![p].next = new_b_pos]
                  /\ ret' = NoRet
                  /\ UNCHANGED panicked
             ELSE Return(p, "alloc", "NoMemory") /\ UNCHANGED panicked
    /\ UNCHANGED <<fields, grants>>
    /\ UNCHANGED library

\* top of the loop: align_up, checked_add, the load of p_pos and the match
\* on new_b_pos; an overflowing align_up panics in a build with overflow
\* checks and wraps in a build without
alloc_load_p(p) ==
    /\ ~panicked
    /\ pc[p] = "a_load_p"
    /\ LET aligned_b_pos == align_up(loc[p].cur_b, loc[p].align)
           new_b_pos == checked_add(aligned_b_pos, loc[p].size)
           current_p_pos == p_pos
       IN  \E overflow_checks \in BOOLEAN :
             IF overflow_checks
                /\ align_up_overflows(loc[p].cur_b, loc[p].align)
             THEN Panic
             ELSE IF new_b_pos # None /\ new_b_pos <= current_p_pos
             THEN /\ pc' = [pc EXCEPT ![p] = "a_cas"]
                  /\ loc' = [loc EXCEPT ![p].aligned = aligned_b_pos,
                                        ![p].next = new_b_pos]
                  /\ ret' = NoRet
                  /\ UNCHANGED panicked
             ELSE Return(p, "alloc", "NoMemory") /\ UNCHANGED panicked
    /\ UNCHANGED <<fields, grants>>
    /\ UNCHANGED library

\* a failed exchange that retries with the b_pos it had, not the one it saw
alloc_cas_no_reload(p) ==
    /\ ~panicked
    /\ pc[p] = "a_cas"
    /\ IF compare_exchange(b_pos, loc[p].cur_b)
       THEN /\ b_pos' = loc[p].next
            /\ pc' = [pc EXCEPT ![p] = "a_count"]
            /\ loc' = [loc EXCEPT ![p] =
                         [NoLoc EXCEPT !.size = loc[p].size,
                                       !.align = loc[p].align,
                                       !.aligned = loc[p].aligned]]
       ELSE /\ b_pos' = b_pos
            /\ pc' = [pc EXCEPT ![p] = "a_load_p"]
            /\ loc' = [loc EXCEPT ![p] =
                         [NoLoc EXCEPT !.size = loc[p].size,
                                       !.align = loc[p].align,
                                       !.cur_b = loc[p].cur_b]]
    /\ ret' = NoRet
    /\ UNCHANGED <<start, end, p_pos, count, grants, panicked>>
    /\ UNCHANGED library

\* the compare_exchange on b_pos
alloc_cas(p) ==
    /\ ~panicked
    /\ pc[p] = "a_cas"
    /\ IF compare_exchange(b_pos, loc[p].cur_b)
       THEN /\ b_pos' = loc[p].next
            /\ pc' = [pc EXCEPT ![p] = "a_count"]
            /\ loc' = [loc EXCEPT ![p] =
                         [NoLoc EXCEPT !.size = loc[p].size,
                                       !.align = loc[p].align,
                                       !.aligned = loc[p].aligned]]
       ELSE /\ b_pos' = b_pos
            /\ pc' = [pc EXCEPT ![p] = "a_load_p"]
            /\ loc' = [loc EXCEPT ![p] =
                         [NoLoc EXCEPT !.size = loc[p].size,
                                       !.align = loc[p].align,
                                       !.cur_b = b_pos]]
    /\ ret' = NoRet
    /\ UNCHANGED <<start, end, p_pos, count, grants, panicked>>
    /\ UNCHANGED library

\* count.fetch_add(1), then Ok(NonNull::new(aligned_b_pos).unwrap())
alloc_count(p) ==
    /\ ~panicked
    /\ pc[p] = "a_count"
    /\ count' = Wrap(count + 1)
    /\ IF loc[p].aligned = 0
       THEN Panic /\ UNCHANGED grants
       ELSE /\ Return(p, "alloc", "Ok")
            /\ byte_grants' = Grant(byte_grants, loc[p].aligned, loc[p].size)
            /\ UNCHANGED <<page_grants, panicked>>
    /\ UNCHANGED <<start, end, b_pos, p_pos>>
    /\ UNCHANGED library

\* a dealloc that frees the bytes-used area when count goes down to zero
dealloc_reclaim(p) ==
    /\ ~panicked
    /\ pc[p] = "idle"
    /\ IF ~is_initialized
       THEN /\ Return(p, "dealloc", "Unit")
            /\ count' = count
            /\ b_pos' = b_pos
       ELSE /\ count' = Wrap(count - 1)
            /\ b_pos' = IF count = 1 THEN start ELSE b_pos
            /\ IF count = 0
               THEN /\ pc' = [pc EXCEPT ![p] = "d_store"]
                    /\ ret' = NoRet
                    /\ loc' = loc
               ELSE Return(p, "dealloc", "Unit")
    /\ UNCHANGED <<start, end, p_pos, grants, panicked>>
    /\ UNCHANGED library

\* dealloc, up to count.fetch_sub(1)
dealloc(p) ==
    /\ ~panicked
    /\ pc[p] = "idle"
    /\ IF ~is_initialized
       THEN /\ Return(p, "dealloc", "Unit")
            /\ count' = count
       ELSE /\ count' = Wrap(count - 1)
            /\ IF count = 0
               THEN /\ pc' = [pc EXCEPT ![p] = "d_store"]
                    /\ ret' = NoRet
                    /\ loc' = loc
               ELSE Return(p, "dealloc", "Unit")
    /\ UNCHANGED <<start, end, b_pos, p_pos, grants, panicked>>
    /\ UNCHANGED library

\* if prev_count == 0 { count.store(0) }
dealloc_store(p) ==
    /\ ~panicked
    /\ pc[p] = "d_store"
    /\ count' = 0
    /\ Return(p, "dealloc", "Unit")
    /\ UNCHANGED <<start, end, b_pos, p_pos, grants, panicked>>
    /\ UNCHANGED library

\* b_pos itself in place of its distance from start
used_bytes_from_zero == IF ~is_initialized THEN 0 ELSE b_pos

total_bytes == IF ~is_initialized THEN 0 ELSE saturating_sub(end, start)
used_bytes == IF ~is_initialized THEN 0 ELSE saturating_sub(b_pos, start)
available_bytes == IF ~is_initialized THEN 0 ELSE saturating_sub(p_pos, b_pos)

(* ---------------------------------------------------------------------- *)
(* PageAllocator                                                           *)
(* ---------------------------------------------------------------------- *)
\* 1usize.checked_shl(align_pow2 as u32), then .max(PAGE_SIZE)
pages_align(align_pow2) ==
    IF checked_shl(align_pow2) = None THEN None
    ELSE Max(checked_shl(align_pow2), PAGE_SIZE)

\* alloc_pages, up to the loads of p_pos and start
pages_call(p, num_pages, align_pow2) ==
    /\ ~panicked
    /\ pc[p] = "idle"
    /\ LET align == pages_align(align_pow2)
           size == checked_mul(num_pages, PAGE_SIZE)
       IN  IF ~is_initialized \/ num_pages = 0 \/ align = None
              \/ ~is_power_of_two(align)
           THEN Return(p, "alloc_pages", "InvalidParam")
           ELSE IF size = None
           THEN Return(p, "alloc_pages", "NoMemory")
           ELSE /\ pc' = [pc EXCEPT ![p] = "p_load_b"]
                /\ loc' = [loc EXCEPT ![p] =
                             [NoLoc EXCEPT !.size = size, !.align = align,
                                           !.arg = align_pow2,
                                           !.cur_p = p_pos, !.lim = start]]
                /\ ret' = NoRet
    /\ UNCHANGED <<fields, grants, panicked>>
    /\ UNCHANGED library

\* top of the loop: checked_sub, the load of b_pos, align_down and the test
\* against b_pos and start
pages_load_b(p) ==
    /\ ~panicked
    /\ pc[p] = "p_load_b"
    /\ LET potential_start == checked_sub(loc[p].cur_p, loc[p].size)
           current_b_pos == b_pos
           aligned_start == align_down(potential_start, loc[p].align)
       IN  IF /\ potential_start # None
              /\ aligned_start >= current_b_pos
              /\ aligned_start >= loc[p].lim
           THEN /\ pc' = [pc EXCEPT ![p] = "p_cas"]
                /\ loc' = [loc EXCEPT ![p].aligned = aligned_start]
                /\ ret' = NoRet
           ELSE Return(p, "alloc_pages", "NoMemory")
    /\ UNCHANGED <<fields, grants, panicked>>
    /\ UNCHANGED library

\* the compare_exchange on p_pos
pages_cas(p) ==
    /\ ~panicked
    /\ pc[p] = "p_cas"
    /\ IF compare_exchange(p_pos, loc[p].cur_p)
       THEN /\ p_pos' = loc[p].aligned
            /\ Return(p, "alloc_pages", "Ok")
            /\ page_grants' = Grant(page_grants, loc[p].aligned, loc[p].size)
       ELSE /\ p_pos' = p_pos
            /\ pc' = [pc EXCEPT ![p] = "p_load_b"]
            /\ loc' = [loc EXCEPT ![p].cur_p = p_pos, ![p].aligned = 0]
            /\ ret' = NoRet
            /\ UNCHANGED page_grants
    /\ UNCHANGED <<start, end, b_pos, count, byte_grants, panicked>>
    /\ UNCHANGED library

dealloc_pages(p) ==
    /\ ~panicked
    /\ pc[p] = "idle"
    /\ Return(p, "dealloc_pages", "Unit")
    /\ UNCHANGED <<fields, grants, panicked>>
    /\ UNCHANGED library

(* ---------------------------------------------------------------------- *)
(* The allocator shared by concurrent callers, which free only while a     *)
(* byte allocation is outstanding                                          *)
(* ---------------------------------------------------------------------- *)
Next ==
    \/ \E a \in InitArgs : init(a[1], a[2])
    \/ \E p \in Procs : add_memory(p)
    \/ \E p \in Procs, size \in Sizes, align \in Aligns :
          alloc_call(p, size, align)
    \/ \E p \in Procs : alloc_load_p(p)
    \/ \E p \in Procs : alloc_cas(p)
    \/ \E p \in Procs : alloc_count(p)
    \/ \E p \in Procs : count # 0 /\ dealloc(p)
    \/ \E p \in Procs, n \in NumPages, k \in AlignPow2s : pages_call(p, n, k)
    \/ \E p \in Procs : pages_load_b(p)
    \/ \E p \in Procs : pages_cas(p)
    \/ \E p \in Procs : dealloc_pages(p)

Spec == Init /\ [][Next]_vars

(* ---------------------------------------------------------------------- *)
(* The allocator used by a single caller, over every kind of argument      *)
(* ---------------------------------------------------------------------- *)
SeqNext ==
    \/ \E a \in SeqInitArgs : init(a[1], a[2])
    \/ add_memory(1)
    \/ \E size \in SeqSizes, align \in SeqAligns : alloc_call(1, size, align)
    \/ alloc_load_p(1)
    \/ alloc_cas(1)
    \/ alloc_count(1)
    \/ dealloc(1)
    \/ dealloc_store(1)
    \/ \E n \in SeqNumPages, k \in SeqAlignPow2s : pages_call(1, n, k)
    \/ pages_load_b(1)
    \/ pages_cas(1)
    \/ dealloc_pages(1)

SeqSpec == Init /\ [][SeqNext]_vars

(* ---------------------------------------------------------------------- *)
(* Properties of the cursors under concurrent callers                      *)
(* ---------------------------------------------------------------------- *)
\* C1: once initialised, in every state of every interleaving of alloc and
\* alloc_pages calls the cursors are ordered start <= b_pos <= p_pos <= end
C1_CursorOrder ==
    is_initialized => (start <= b_pos /\ b_pos <= p_pos /\ p_pos <= end)

\* C2: no address lies both in a range returned by a successful alloc and in
\* a range returned by a successful alloc_pages
C2_ByteAndPageDisjoint ==
    BagToSet(byte_grants) \cap BagToSet(page_grants) = {}

\* C3: no address lies in the ranges of two successful alloc calls, nor in
\* the ranges of two successful alloc_pages calls
C3_DisjointWithinArena ==
    /\ \A x \in BagToSet(byte_grants) : CopiesIn(x, byte_grants) <= 1
    /\ \A x \in BagToSet(page_grants) : CopiesIn(x, page_grants) <= 1

\* two alloc calls and two alloc_pages calls have succeeded
C3_Witness ==
    /\ Cardinality(BagToSet(byte_grants)) >= 2
    /\ Cardinality(BagToSet(page_grants)) >= 2 * PAGE_SIZE

\* C4: when the compare-and-swap of an alloc succeeds, the address a it will
\* return is a multiple of align, a >= start, and a + size <= p_pos for the
\* value p_pos holds at that instant
C4_AllocResult ==
    [][\A p \in Procs :
         (alloc_cas(p) /\ pc'[p] = "a_count" /\ loc[p].aligned # 0) =>
             /\ loc[p].aligned % loc[p].align = 0
             /\ loc[p].aligned >= start
             /\ loc[p].next <= p_pos]_vars

\* C5: when alloc_pages(n, p) returns a, a is a multiple of
\* max(2^p, PAGE_SIZE), a >= start, and [a, a + n * PAGE_SIZE) lies inside
\* [start, end) and ends at or below the page cursor the call had read
C5_PagesResult ==
    [][\A p \in Procs :
         (pages_cas(p) /\ ret' = <<"alloc_pages", "Ok">>) =>
             /\ loc[p].aligned % Max(2 ^ loc[p].arg, PAGE_SIZE) = 0
             /\ loc[p].aligned >= start
             /\ loc[p].aligned + loc[p].size <= end
             /\ loc[p].aligned + loc[p].size <= loc[p].cur_p]_vars

(* ---------------------------------------------------------------------- *)
(* Properties of the calls of a single caller                              *)
(* ---------------------------------------------------------------------- *)
\* C6 as stated: whenever no call is in progress,
\* used_bytes() + available_bytes() = total_bytes()
C6_UsedPlusAvailableIsTotal ==
    Quiescent => used_bytes + available_bytes = total_bytes

\* C6 as amended: whenever no call is in progress,
\* used_bytes() + available_bytes() <= total_bytes(), and the two are equal
\* as long as no page has been handed out (p_pos = end)
C6_UsedPlusAvailableWithinTotal ==
    Quiescent =>
        /\ used_bytes + available_bytes <= total_bytes
        /\ p_pos = end => used_bytes + available_bytes = total_bytes

\* no call is in progress, bytes and a page have been handed out
C6_Witness ==
    /\ Quiescent
    /\ is_initialized
    /\ b_pos > start
    /\ p_pos < end
    /\ used_bytes + available_bytes < total_bytes

\* C7: init(start, size) with size > 0 and start + size within usize leaves
\* the allocator initialised, with b_pos = start, p_pos = end = start + size,
\* count = 0 and total_bytes() = size
C7_InitInitializes ==
    [][\A a \in SeqInitArgs :
         (a[2] > 0 /\ a[1] + a[2] <= MaxWord /\ init(a[1], a[2])) =>
             /\ is_initialized'
             /\ start' = a[1]
             /\ b_pos' = a[1]
             /\ p_pos' = a[1] + a[2]
             /\ end' = a[1] + a[2]
             /\ count' = 0
             /\ total_bytes' = a[2]]_vars

\* the Uninitialized state of the lifecycle
Uninitialized == start = 0 \/ end = 0

\* C8: while Uninitialized, alloc and alloc_pages return InvalidParam,
\* dealloc and dealloc_pages return at once, and none of them changes
\* start, end, b_pos, p_pos or count
C8_UninitializedRejects ==
    [][Uninitialized =>
         /\ \A size \in SeqSizes, align \in SeqAligns :
               alloc_call(1, size, align) =>
                   ret' = <<"alloc", "InvalidParam">> /\ UNCHANGED fields
         /\ \A n \in SeqNumPages, k \in SeqAlignPow2s :
               pages_call(1, n, k) =>
                   ret' = <<"alloc_pages", "InvalidParam">>
                   /\ UNCHANGED fields
         /\ dealloc(1) => ret' = <<"dealloc", "Unit">> /\ UNCHANGED fields
         /\ dealloc_pages(1) => UNCHANGED fields]_vars

\* an alloc_pages call was refused before any init
C8_Witness ==
    /\ start = 0
    /\ end = 0
    /\ ret = <<"alloc_pages", "InvalidParam">>

C10_BadLayoutRejected ==
    [][\A size \in SeqSizes, align \in SeqAligns :
         (/\ is_initialized
          /\ size = 0 \/ ~(\E k \in 0 .. WordBits : align = 2 ^ k)
          /\ alloc_call(1, size, align)) =>
             /\ ret' = <<"alloc", "InvalidParam">>
             /\ UNCHANGED <<b_pos, p_pos, count>>]_vars

\* an alloc was refused on an initialised allocator with room left
C10_Witness ==
    /\ is_initialized
    /\ ret = <<"alloc", "InvalidParam">>
    /\ available_bytes > 0

(* ---------------------------------------------------------------------- *)
(* The reference double-ended bump model                                   *)
(* ---------------------------------------------------------------------- *)
\* the least multiple of align that is at least x, over the integers
RoundUp(x, align) == ((x + align - 1) \div align) * align
\* the greatest multiple of align that is at most x, over the integers
RoundDown(x, align) == x - (x % align)

\* C11: for a single caller on an initialised allocator, alloc(size, align)
\* succeeds iff round_up(b_pos, align) + size <= p_pos, then returns
\* round_up(b_pos, align), sets b_pos to that plus size and increments count,
\* leaving p_pos; alloc_pages(n, p) succeeds iff
\* round_down(p_pos - n * PAGE_SIZE, max(2^p, PAGE_SIZE)) >= max(b_pos, start),
\* then returns that value and sets p_pos to it, leaving b_pos and count;
\* otherwise the call returns NoMemory
C11_ReferenceModel ==
    [][/\ alloc_load_p(1) =>
             LET a == RoundUp(b_pos, loc[1].align)
             IN  IF a + loc[1].size <= p_pos
                 THEN /\ pc'[1] = "a_cas"
                      /\ loc'[1].aligned = a
                      /\ loc'[1].next = a + loc[1].size
                 ELSE ret' = <<"alloc", "NoMemory">> /\ UNCHANGED fields
       /\ alloc_cas(1) =>
             /\ pc'[1] = "a_count"
             /\ b_pos' = loc[1].next
             /\ UNCHANGED <<p_pos, count>>
       /\ alloc_count(1) =>
             /\ ret' = <<"alloc", "Ok">>
             /\ byte_grants' = Grant(byte_grants, loc[1].aligned, loc[1].size)
             /\ count' = count + 1
             /\ UNCHANGED <<b_pos, p_pos>>
       /\ pages_load_b(1) =>
             LET a == RoundDown(p_pos - loc[1].size,
                                Max(2 ^ loc[1].arg, PAGE_SIZE))
             IN  IF a >= Max(b_pos, start)
                 THEN pc'[1] = "p_cas" /\ loc'[1].aligned = a
                 ELSE ret' = <<"alloc_pages", "NoMemory">>
                      /\ UNCHANGED fields
       /\ pages_cas(1) =>
             /\ ret' = <<"alloc_pages", "Ok">>
             /\ p_pos' = loc[1].aligned
             /\ page_grants' = Grant(page_grants, loc[1].aligned, loc[1].size)
             /\ UNCHANGED <<b_pos, count>>]_vars


(* Page statistics *)

total_pages == IF ~is_initialized THEN 0 ELSE total_bytes \div PAGE_SIZE
used_pages_rounded_up ==
    IF ~is_initialized THEN 0
    ELSE (saturating_sub(end, p_pos) + PAGE_SIZE - 1) \div PAGE_SIZE
used_pages ==
    IF ~is_initialized THEN 0 ELSE saturating_sub(end, p_pos) \div PAGE_SIZE
available_pages ==
    IF ~is_initialized THEN 0
    ELSE align_down(available_bytes, PAGE_SIZE) \div PAGE_SIZE

\* C12: in every quiescent state reachable by init, alloc, dealloc,
\* alloc_pages and dealloc_pages calls, used_pages() + available_pages() <=
\* total_pages(), where used_pages is (end - p_pos) / PAGE_SIZE,
\* available_pages is (p_pos - b_pos) / PAGE_SIZE and total_pages is
\* (end - start) / PAGE_SIZE, all with integer division
C12_PagesWithinTotal ==
    Quiescent =>
        /\ used_pages + available_pages <= total_pages
        /\ is_initialized =>
              /\ used_pages = (end - p_pos) \div PAGE_SIZE
              /\ available_pages = (p_pos - b_pos) \div PAGE_SIZE
              /\ total_pages = (end - start) \div PAGE_SIZE

\* a quiescent state after both a byte and a page allocation in which pages
\* are used and pages are still available
C12_Witness ==
    /\ Quiescent
    /\ is_initialized
    /\ b_pos > start
    /\ used_pages > 0
    /\ available_pages > 0

\* C13: the arithmetic of alloc is overflow-safe over the machine word: on
\* every initialized state, a region ending near the top of the address
\* space included, an alloc with valid arguments whose round_up(b_pos, align)
\* or round_up(b_pos, align) + size exceeds the largest word value returns
\* NoMemory; no step of alloc panics, returns an address below start or
\* stores a wrapped-around (lower) value into b_pos
C13_AllocOverflowSafe ==
    [][alloc_load_p(1) \/ alloc_cas(1) \/ alloc_count(1) =>
           /\ ~panicked'
           /\ b_pos' >= b_pos
           /\ ret' = <<"alloc", "Ok">> => loc[1].aligned >= start
           /\ (/\ alloc_load_p(1)
               /\ RoundUp(loc[1].cur_b, loc[1].align) + loc[1].size > MaxWord)
                  => ret' = <<"alloc", "NoMemory">>]_vars

C15_NoLockout ==
    [][/\ ret' \in {<<"alloc", "NoMemory">>, <<"alloc_pages", "NoMemory">>}
             => UNCHANGED <<b_pos, p_pos, count>>
       /\ (/\ alloc_load_p(1)
           /\ RoundUp(b_pos, loc[1].align) + loc[1].size <= p_pos)
             => pc'[1] = "a_cas" /\ ~panicked'
       /\ alloc_cas(1) => pc'[1] = "a_count"
       /\ (alloc_count(1) /\ loc[1].aligned >= start)
             => ret' = <<"alloc", "Ok">>
       /\ (/\ pages_load_b(1)
           /\ RoundDown(p_pos - loc[1].size, Max(2 ^ loc[1].arg, PAGE_SIZE))
                 >= Max(b_pos, start))
             => pc'[1] = "p_cas"
       /\ pages_cas(1) => ret' = <<"alloc_pages", "Ok">>]_vars

(* ---------------------------------------------------------------------- *)
(* Concurrent allocating callers under a fair scheduler: a caller inside   *)
(* alloc or alloc_pages is not starved of its next step                    *)
(* ---------------------------------------------------------------------- *)
call_step(p) ==
    \/ alloc_load_p(p)
    \/ alloc_cas(p)
    \/ alloc_count(p)
    \/ pages_load_b(p)
    \/ pages_cas(p)

\* the callers only allocate, each asking for one byte or one page
FairSizes == {1}
FairAligns == {1}
FairNumPages == {1}

FairNext ==
    \/ \E a \in InitArgs : init(a[1], a[2])
    \/ \E p \in Procs, size \in FairSizes, align \in FairAligns :
          alloc_call(p, size, align)
    \/ \E p \in Procs : alloc_load_p(p)
    \/ \E p \in Procs : alloc_cas(p)
    \/ \E p \in Procs : alloc_count(p)
    \/ \E p \in Procs, n \in FairNumPages, k \in AlignPow2s :
          pages_call(p, n, k)
    \/ \E p \in Procs : pages_load_b(p)
    \/ \E p \in Procs : pages_cas(p)

FairSpec ==
    Init /\ [][FairNext]_vars /\ \A p \in Procs : WF_vars(call_step(p))

C17_CursorsMonotone ==
    [][\/ \E a \in SeqInitArgs \cup InitArgs : init(a[1], a[2])
       \/ /\ b_pos' >= b_pos
          /\ p_pos' <= p_pos
          /\ UNCHANGED <<start, end>>]_vars

\* C18: count is clamped at zero and never underflows: in no reachable
\* state, the states between the two steps of a dealloc included, does count
\* hold a wrapped-around value above the number of successful alloc calls so
\* far (each of which was handed at least one address since the last init)
C18_CountNeverWraps ==
    ~panicked => count <= BagCardinality(byte_grants)

(* ---------------------------------------------------------------------- *)
(* collections::HashMap                                                    *)
(* ---------------------------------------------------------------------- *)
new ==
    /\ ~panicked
    /\ map' = HashMap_new
    /\ last' = NoEntries
    /\ got' = NoGot
    /\ UNCHANGED <<fields, pc, loc, ret, grants, panicked, dir, fs_ret>>

with_capacity(capacity) ==
    /\ ~panicked
    /\ map' = EmptyMap(capacity)
    /\ last' = NoEntries
    /\ got' = NoGot
    /\ UNCHANGED <<fields, pc, loc, ret, grants, panicked, dir, fs_ret>>

\* `hash % self.buckets.len()` panics when there is no bucket
insert(key, value) ==
    /\ ~panicked
    /\ LET m == IF map.count > Len(map.buckets) * 2 THEN resize(map) ELSE map
       IN  IF Len(m.buckets) = 0
           THEN panicked' = TRUE /\ UNCHANGED <<map, last, got>>
           ELSE LET index == (finish(key) % Len(m.buckets)) + 1
                    bucket == m.buckets[index]
                    hits == {i \in 1 .. Len(bucket) : bucket[i][1] = key}
                    first == CHOOSE i \in hits : \A j \in hits : i <= j
                IN  /\ map' =
                          IF hits # {}
                          THEN [m EXCEPT !.buckets[index][first] =
                                             <<key, value>>]
                          ELSE [m EXCEPT !.buckets[index] =
                                             Append(bucket, <<key, value>>),
                                         !.count = m.count + 1]
                    /\ last' = [last EXCEPT ![key] = value]
                    /\ got' = NoGot
                    /\ UNCHANGED panicked
    /\ UNCHANGED <<fields, pc, loc, ret, grants, dir, fs_ret>>

get(key) ==
    /\ ~panicked
    /\ IF Len(map.buckets) = 0
       THEN panicked' = TRUE /\ UNCHANGED got
       ELSE LET bucket == map.buckets[(finish(key) % Len(map.buckets)) + 1]
                hits == {i \in 1 .. Len(bucket) : bucket[i][1] = key}
                first == CHOOSE i \in hits : \A j \in hits : i <= j
            IN  /\ got' = <<key, IF hits = {} THEN None ELSE bucket[first][2]>>
                /\ UNCHANGED panicked
    /\ UNCHANGED <<fields, pc, loc, ret, grants, map, last, dir, fs_ret>>

MapNext ==
    \/ new
    \/ \E capacity \in Capacities : with_capacity(capacity)
    \/ \E key \in Keys, value \in Values : insert(key, value)
    \/ \E key \in Keys : get(key)

MapSpec == Init /\ [][MapNext]_vars

\* the entries of map whose key is k
EntriesOf(k) ==
    {ij \in {<<i, j>> \in (1 .. Len(map.buckets)) \X (1 .. Cardinality(Keys)) :
                j <= Len(map.buckets[i])} :
        map.buckets[ij[1]][ij[2]][1] = k}

\* C19: for a HashMap made by new() or by with_capacity(c) for any c >= 0,
\* after any sequence of insert calls: get(k) returns the value of the most
\* recent insert(k, _) and None for a key never inserted, each key is stored
\* in exactly one bucket entry, count is the number of distinct keys
\* inserted, and a resize keeps every key/value pair
C19_MapCorrect ==
    /\ ~panicked
    /\ got # NoGot => got[2] = last[got[1]]
    /\ \A k \in Keys :
          /\ Cardinality(EntriesOf(k)) = IF last[k] = None THEN 0 ELSE 1
          /\ \A ij \in EntriesOf(k) :
                map.buckets[ij[1]][ij[2]] = <<k, last[k]>>
    /\ map.count = Cardinality({k \in Keys : last[k] # None})

(* ---------------------------------------------------------------------- *)
(* The ramfs root directory behind DirWrapper                              *)
(* ---------------------------------------------------------------------- *)
\* DirWrapper::create
create(path, ty) ==
    /\ ~panicked
    /\ dir' = IF DirNode_create(dir, path) = "Ok"
              THEN DirNode_created(dir, path, ty)
              ELSE dir
    /\ fs_ret' = NoRename
    /\ UNCHANGED <<fields, pc, loc, ret, grants, panicked, map, last, got>>

\* a caller looks a file up and writes buf from offset 0 to its end
write_file(path, buf) ==
    /\ ~panicked
    /\ DirNode_lookup(dir, path) = "Ok"
    /\ dir[path].type = "file"
    /\ dir' = write_at(dir, path, buf)
    /\ fs_ret' = NoRename
    /\ UNCHANGED <<fields, pc, loc, ret, grants, panicked, map, last, got>>

\* a rename that removes src before it creates dst
rename_remove_first(src_path, dst_path) ==
    /\ ~panicked
    /\ LET src == dir[src_path]
           removed == DirNode_removed(dir, src_path)
       IN  IF DirNode_lookup(dir, src_path) # "Ok"
           THEN /\ fs_ret' = <<src_path, dst_path,
                               DirNode_lookup(dir, src_path)>>
                /\ dir' = dir
           ELSE IF DirNode_create(removed, dst_path) # "Ok"
           THEN /\ fs_ret' = <<src_path, dst_path,
                               DirNode_create(removed, dst_path)>>
                /\ dir' = removed
           ELSE IF read_at(src) # "Ok"
           THEN /\ fs_ret' = <<src_path, dst_path, read_at(src)>>
                /\ dir' = DirNode_created(removed, dst_path, "file")
           ELSE /\ fs_ret' = <<src_path, dst_path, "Ok">>
                /\ dir' = write_at(DirNode_created(removed, dst_path, "file"),
                                   dst_path, src.content)
    /\ UNCHANGED <<fields, pc, loc, ret, grants, panicked, map, last, got>>

\* DirWrapper::rename: lookup src, create dst, lookup dst, remove src, read
\* src (the node is still held), write dst; each `?` returns the error
rename(src_path, dst_path) ==
    /\ ~panicked
    /\ LET src == dir[src_path]
           created == DirNode_created(dir, dst_path, "file")
           removed == DirNode_removed(created, src_path)
       IN  IF DirNode_lookup(dir, src_path) # "Ok"
           THEN /\ fs_ret' = <<src_path, dst_path,
                               DirNode_lookup(dir, src_path)>>
                /\ dir' = dir
           ELSE IF DirNode_create(dir, dst_path) # "Ok"
           THEN /\ fs_ret' = <<src_path, dst_path,
                               DirNode_create(dir, dst_path)>>
                /\ dir' = dir
           ELSE IF DirNode_lookup(created, dst_path) # "Ok"
           THEN /\ fs_ret' = <<src_path, dst_path,
                               DirNode_lookup(created, dst_path)>>
                /\ dir' = created
           ELSE IF DirNode_remove(created, src_path) # "Ok"
           THEN /\ fs_ret' = <<src_path, dst_path,
                               DirNode_remove(created, src_path)>>
                /\ dir' = created
           ELSE IF read_at(src) # "Ok"
           THEN /\ fs_ret' = <<src_path, dst_path, read_at(src)>>
                /\ dir' = removed
           ELSE /\ fs_ret' = <<src_path, dst_path, "Ok">>
                /\ dir' = write_at(removed, dst_path, src.content)
    /\ UNCHANGED <<fields, pc, loc, ret, grants, panicked, map, last, got>>

FsNext ==
    \/ \E path \in Names, ty \in {"file", "dir"} : create(path, ty)
    \/ \E path \in Names, buf \in Contents : write_file(path, buf)
    \/ \E src_path \in Names, dst_path \in Names : rename(src_path, dst_path)

FsSpec == Init /\ [][FsNext]_vars

====
